---- MODULE Spec2Model ----
(***************************************************************************)
(* Sudoku solver (models.py, solver.py): the grid model, the two tiers of  *)
(* candidate deduction, the propagation loop of SudokuSolver.solve and the *)
(* explicit-stack search of SudokuSolver.brute_force.                      *)
(*                                                                         *)
(* Field objects live in a heap (reference -> grid), so that deepcopy and  *)
(* in-place assignment are distinguishable.  A grid is data[row][column],  *)
(* rows and columns numbered 0..8 as in the source.                        *)
(***************************************************************************)
EXTENDS Integers, Sequences, FiniteSets, TLC

VARIABLES
    heap,             \* reference -> grid of every live Field object
    with_brute_force, \* solve's parameter
    pc,               \* position of the control flow
    counter,          \* solve: counter
    updates_found,    \* solve: updates_found
    pos,              \* solve: index in field.cells of the next cell of the for loop
    fields_to_check,  \* brute_force: stack of references
    current_field,    \* brute_force: reference popped last (NoRef before)
    bf_cell,          \* brute_force: the cell branched on
    possible_values,  \* brute_force: values of the for loop not yet iterated
    field_copy,       \* brute_force: reference of the copy made last (NoRef before)
    outcome,          \* how the call ended
    printed,          \* the grid printed with a "Solved ..." message (NoGrid before)
    run,              \* 1: first call of solve, 2: the caller's second call
    input,            \* history: the grid as constructed
    solutions,        \* history: the valid complete grids that extend input
    done_grid,        \* history: the grid when the first call's propagation loop ended
    at_call           \* history: the caller's grid when brute_force was called

vars == <<heap, with_brute_force, pc, counter, updates_found, pos, fields_to_check,
          current_field, bf_cell, possible_values, field_copy, outcome, printed,
          run, input, solutions, done_grid, at_call>>

----------------------------------------------------------------------------
(* models.py *)

None == 0

Idx == 0..8

ALLOWED_VALUES == (1..9) \cup {None}

Range3 == [i \in 0..2 |-> <<3 * i, 3 * i + 3>>]

\* list(product([[0, 3], [3, 6], [6, 9]], repeat=2)), indexed from 0
SQUARES_COORDINATES == [k \in 0..8 |-> <<Range3[k \div 3], Range3[k % 3]>>]

\* Field.get_cell: the Cell object at data[row][column]
GetCell(g, column, row) == [value |-> g[row][column], column |-> column, row |-> row]

\* Cell.is_valid
CellIsValid(cell) == cell.value # None

\* Cell.square_coords
SquareCoords(cell) == <<cell.column \div 3, cell.row \div 3>>

\* Field.get_row
GetRow(g, index) == [i \in Idx |-> GetCell(g, i, index)]

\* Field.get_column
GetColumn(g, index) == [i \in Idx |-> GetCell(g, index, i)]

\* Line.is_valid with a wrong count
LineIsValidOffByOne(line) ==
    /\ \A i \in Idx : CellIsValid(line[i])
    /\ Cardinality({line[i].value : i \in Idx}) = 8

\* Line.is_valid
LineIsValid(line) ==
    /\ \A i \in Idx : CellIsValid(line[i])
    /\ Cardinality({line[i].value : i \in Idx}) = 9

\* Line.get_missing_values
LineGetMissingValues(line) ==
    (ALLOWED_VALUES \ {None}) \ {line[i].value : i \in {j \in Idx : line[j].value # None}}

\* Field.get_square
GetSquare(g, column, row) ==
    LET comb == SQUARES_COORDINATES[row * 3 + column]
    IN  [rows |-> [i \in 0..2 |-> [j \in 0..2 |->
                      GetCell(g, comb[2][1] + j, comb[1][1] + i)]],
         column |-> column, row |-> row]

\* Field.get_square_from_coordinates
GetSquareFromCoordinates(g, column, row) == GetSquare(g, column \div 3, row \div 3)

\* Square.cells
SquareCells(square) == {square.rows[i][j] : i \in 0..2, j \in 0..2}

\* Square.is_valid
SquareIsValid(square) ==
    /\ \A cell \in SquareCells(square) : CellIsValid(cell)
    /\ Cardinality({cell.value : cell \in SquareCells(square)}) = 9

\* Square.get_missing_values
SquareGetMissingValues(square) ==
    (ALLOWED_VALUES \ {None})
        \ {cell.value : cell \in {c \in SquareCells(square) : c.value # None}}

\* Field.is_valid without the columns
FieldIsValidNoColumns(g) ==
    /\ \A i \in Idx : LineIsValid(GetRow(g, i))
    /\ \A i \in 0..2 : \A j \in 0..2 : SquareIsValid(GetSquare(g, i, j))

\* Field.is_valid
FieldIsValid(g) ==
    /\ \A i \in Idx : LineIsValid(GetRow(g, i))
    /\ \A i \in Idx : LineIsValid(GetColumn(g, i))
    /\ \A i \in 0..2 : \A j \in 0..2 : SquareIsValid(GetSquare(g, i, j))

\* Field.cells: the cell at position k of the row-major iteration
CellAt(g, k) == GetCell(g, k % 9, k \div 9)

\* Field.has_empty_cells
HasEmptyCells(g) == \E k \in 0..80 : CellAt(g, k).value = None

\* Field.init_from_data: 0 becomes None
InitFromData(data) ==
    [r \in Idx |-> [c \in Idx |-> IF data[r][c] = 0 THEN None ELSE data[r][c]]]

----------------------------------------------------------------------------
(* solver.py: candidate deduction *)

\* _get_possible_value_tier_1 without the column
Tier1NoColumn(g, cell) ==
    IF cell.value # None THEN {}
    ELSE LineGetMissingValues(GetRow(g, cell.row))
            \cap SquareGetMissingValues(GetSquareFromCoordinates(g, cell.column, cell.row))

\* _get_possible_value_tier_1 without the square
Tier1NoSquare(g, cell) ==
    IF cell.value # None THEN {}
    ELSE LineGetMissingValues(GetRow(g, cell.row))
            \cap LineGetMissingValues(GetColumn(g, cell.column))

\* SudokuSolver._get_possible_value_tier_1
Tier1(g, cell) ==
    IF cell.value # None THEN {}
    ELSE LET row_missing_values == LineGetMissingValues(GetRow(g, cell.row))
             column_missing_values == LineGetMissingValues(GetColumn(g, cell.column))
             square == GetSquareFromCoordinates(g, cell.column, cell.row)
             square_missing_values == SquareGetMissingValues(square)
         IN  row_missing_values \cap column_missing_values \cap square_missing_values

\* the exclusion test with the comparison inverted
LockedToOther(lines, line) == Cardinality(lines) = 1 /\ lines # {line}

\* len(p_value_cells_rows) == 1 and next(iter(p_value_cells_rows)) == cell.row
LockedTo(lines, line) == Cardinality(lines) = 1 /\ lines = {line}

\* the rows of `square` in which p_value is a Tier-1 candidate of some cell
PValueCellsRows(g, square, p_value) ==
    {sc.row : sc \in {c \in SquareCells(square) : p_value \in Tier1(g, c)}}

\* the columns of `square` in which p_value is a Tier-1 candidate of some cell
PValueCellsCols(g, square, p_value) ==
    {sc.column : sc \in {c \in SquareCells(square) : p_value \in Tier1(g, c)}}

\* field.squares
Squares(g) == {GetSquare(g, i, j) : i \in 0..2, j \in 0..2}

\* SudokuSolver._get_possible_value_tier_2
Tier2(g, cell) ==
    IF cell.value # None THEN {}
    ELSE LET cell_square_column == SquareCoords(cell)[1]
             cell_square_row == SquareCoords(cell)[2]
             horizontal == {sq \in Squares(g) :
                               ~(sq.row # cell_square_row \/ sq.column = cell_square_column)}
             vertical == {sq \in Squares(g) :
                               ~(sq.row = cell_square_row \/ sq.column # cell_square_column)}
             after_rows == {p \in Tier1(g, cell) :
                               ~\E sq \in horizontal :
                                   LockedTo(PValueCellsRows(g, sq, p), cell.row)}
         IN  {p \in after_rows :
                 ~\E sq \in vertical : LockedTo(PValueCellsCols(g, sq, p), cell.column)}

\* SudokuSolver.get_possible_values: what it raises, or the set it returns
GetPossibleValues(g, cell) ==
    IF cell.value # None THEN [raised |-> "ValueError", values |-> {}]
    ELSE IF Cardinality(Tier2(g, cell)) > 0
         THEN [raised |-> "none", values |-> Tier2(g, cell)]
         ELSE [raised |-> "AssertionError", values |-> {}]

----------------------------------------------------------------------------
(* The inputs: field_data matrices handed to Field.init_from_data *)

\* the complete grid that solves the "Extreme" field_data of solver.py
SolvedData ==
    << <<8, 6, 2, 4, 1, 3, 9, 7, 5>>,
       <<7, 5, 1, 9, 6, 8, 3, 2, 4>>,
       <<3, 4, 9, 5, 7, 2, 6, 1, 8>>,
       <<1, 7, 5, 2, 4, 9, 8, 6, 3>>,
       <<2, 9, 6, 3, 8, 1, 4, 5, 7>>,
       <<4, 8, 3, 7, 5, 6, 2, 9, 1>>,
       <<9, 1, 4, 6, 3, 5, 7, 8, 2>>,
       <<5, 2, 7, 8, 9, 4, 1, 3, 6>>,
       <<6, 3, 8, 1, 2, 7, 5, 4, 9>> >>

\* the cells <<row, column>> an input may leave empty
HolePool ==
    {<<0, 0>>, <<0, 2>>, <<4, 0>>, <<4, 2>>, <<0, 7>>, <<0, 8>>, <<4, 7>>, <<4, 8>>}

\* at most this many cells of HolePool are empty in an input
MaxHoles == 5

\* a puzzle with one solution that the propagation loop cannot finish
CoreHoles ==
    {<<1, 6>>, <<1, 7>>, <<3, 3>>, <<3, 4>>, <<3, 8>>, <<4, 2>>, <<4, 3>>, <<5, 2>>,
     <<5, 3>>, <<5, 5>>, <<5, 6>>, <<6, 3>>, <<6, 4>>, <<6, 8>>, <<7, 4>>, <<7, 5>>,
     <<7, 7>>, <<7, 8>>, <<8, 3>>, <<8, 4>>, <<8, 5>>, <<8, 7>>, <<8, 8>>}

\* changed clues <<row, column, value>>: none, two clues of a row swapped, one clue wrong
Edits ==
    { {},
      {<<0, 0, 6>>, <<0, 1, 8>>},
      {<<2, 8, 5>>},
      {<<4, 4, 7>>} }

\* the field_data with the clues of `edit` changed and the cells of `holes` set to 0
FieldData(holes, edit) ==
    [r \in Idx |-> [c \in Idx |->
        IF <<r, c>> \in holes THEN 0
        ELSE IF \E e \in edit : e[1] = r /\ e[2] = c
             THEN (CHOOSE e \in edit : e[1] = r /\ e[2] = c)[3]
             ELSE SolvedData[r + 1][c + 1]]]

Inputs ==
    {FieldData(holes, edit) :
        holes \in {h \in SUBSET HolePool : Cardinality(h) <= MaxHoles}, edit \in Edits}
    \cup {FieldData(CoreHoles, {})}

----------------------------------------------------------------------------
(* What the claims speak of, stated on the grid alone *)

Values == 1..9

\* the 27 units (rows, columns, boxes) as sets of <<row, column>>
Units ==
    {{<<r, c>> : c \in Idx} : r \in Idx}
    \cup {{<<r, c>> : r \in Idx} : c \in Idx}
    \cup {{<<3 * br + i, 3 * bc + j>> : i \in 0..2, j \in 0..2} : br \in 0..2, bc \in 0..2}

Holders(g, u, v) == {p \in u : g[p[1]][p[2]] = v}

NoEmptyCell(g) == \A r \in Idx : \A c \in Idx : g[r][c] \in Values

\* no cell is empty and every unit holds each value exactly once
ValidComplete(g) ==
    /\ NoEmptyCell(g)
    /\ \A u \in Units : \A v \in Values : Cardinality(Holders(g, u, v)) = 1

\* no unit holds a value twice
NoDuplicate(g) == \A u \in Units : \A v \in Values : Cardinality(Holders(g, u, v)) <= 1

\* some row holds a value twice
RowDuplicate(g) ==
    \E r \in Idx : \E c1 \in Idx : \E c2 \in Idx :
        c1 # c2 /\ g[r][c1] \in Values /\ g[r][c1] = g[r][c2]

\* the filled cells of g hold what s holds there
Agrees(g, s) == \A r \in Idx : \A c \in Idx : g[r][c] \in Values => g[r][c] = s[r][c]

EmptyCells(g) == {p \in Idx \X Idx : g[p[1]][p[2]] \notin Values}

\* the values no cell sharing a unit with <<r, c>> holds
Free(g, r, c) ==
    {v \in Values : \A u \in Units : <<r, c>> \in u => Holders(g, u, v) = {}}

\* g with the cell p = <<row, column>> holding v
Filled(g, p, v) == [r \in Idx |-> [c \in Idx |-> IF <<r, c>> = p THEN v ELSE g[r][c]]]

SomeEmptyCell(g) == CHOOSE q \in EmptyCells(g) : TRUE

RECURSIVE Completions(_)
\* the valid complete grids that agree with g
Completions(g) ==
    IF EmptyCells(g) = {}
    THEN IF ValidComplete(g) THEN {g} ELSE {}
    ELSE UNION {Completions(Filled(g, SomeEmptyCell(g), v)) :
                   v \in Free(g, SomeEmptyCell(g)[1], SomeEmptyCell(g)[2])}

----------------------------------------------------------------------------
(* solver.py: the objects and the control flow *)

\* sudoku_field, the caller's Field object
field == 1

NoRef == 0

NoGrid == <<>>

NoCell == [value |-> None, column |-> 0 - 1, row |-> 0 - 1]

\* deepcopy that hands back the object it was given
DeepcopyAlias(src, fresh) == src

\* deepcopy(src): the reference of the new object
Deepcopy(src, fresh) == fresh

\* the heap once deepcopy(src) has built its object under the reference `fresh`
Allocate(h, src, fresh) ==
    [ref \in DOMAIN h \cup {fresh} |-> IF ref = fresh THEN h[src] ELSE h[ref]]

\* a reference no live object has: the least one
FreshRef(h) ==
    CHOOSE n \in 1..(Cardinality(DOMAIN h) + 1) :
        n \notin DOMAIN h /\ \A m \in 1..(n - 1) : m \in DOMAIN h

\* cell.value = value, on the Field object under `ref`
SetValue(h, ref, cell, value) == [h EXCEPT ![ref][cell.row][cell.column] = value]

\* the objects still referenced: by the caller, the stack and brute_force's locals
Collect(h, stack, cur, copy) ==
    [ref \in (DOMAIN h) \cap ({field, cur, copy} \cup {stack[i] : i \in DOMAIN stack})
        |-> h[ref]]

\* position in field.cells of the first empty cell at or after `from`, 81 if none
NextEmpty(g, from) ==
    LET empties == {k \in from..80 : CellAt(g, k).value = None}
    IN  IF empties = {} THEN 81 ELSE CHOOSE k \in empties : \A j \in empties : k <= j

\* updates_found when the assignment forgets to set it
UpdatesFoundForgotten(old, values) == old

\* updates_found after a cell with these possible values
UpdatesFound(old, values) == IF Cardinality(values) = 1 THEN TRUE ELSE old

\* fields_to_check[-1] read without taking it off
PopKeep(stack) == stack

\* fields_to_check after pop()
Pop(stack) == SubSeq(stack, 1, Len(stack) - 1)

\* fields_to_check = [field_copy]
PushOverwrite(stack, ref) == <<ref>>

\* fields_to_check.append(field_copy)
Push(stack, ref) == Append(stack, ref)

solveVars == <<counter, updates_found, pos>>
bfVars == <<fields_to_check, current_field, bf_cell, possible_values, field_copy>>
callVars == <<with_brute_force, run, input, solutions>>

Init ==
    /\ \E data \in Inputs :
          /\ heap = [ref \in {field} |-> InitFromData(data)]
          /\ input = InitFromData(data)
          /\ solutions = Completions(InitFromData(data))
    /\ with_brute_force \in BOOLEAN
    /\ pc = "while"
    /\ counter = 0
    /\ updates_found = TRUE
    /\ pos = 0
    /\ fields_to_check = <<>>
    /\ current_field = NoRef
    /\ bf_cell = NoCell
    /\ possible_values = {}
    /\ field_copy = NoRef
    /\ outcome = "running"
    /\ printed = NoGrid
    /\ run = 1
    /\ done_grid = NoGrid
    /\ at_call = NoGrid

\* solve: while updates_found: counter += 1; updates_found = False; for cell in field.cells
CycleStart ==
    /\ pc = "while"
    /\ updates_found
    /\ counter' = counter + 1
    /\ updates_found' = FALSE
    /\ pos' = 0
    /\ pc' = "for"
    /\ UNCHANGED <<heap, bfVars, callVars, outcome, printed, done_grid, at_call>>

\* solve: one iteration of the for loop on the next empty cell
ScanCell ==
    /\ pc = "for"
    /\ \E k \in {NextEmpty(heap[field], pos)} :
          /\ k < 81
          /\ \E cell \in {CellAt(heap[field], k)} :
             \E res \in {GetPossibleValues(heap[field], cell)} :
                IF res.raised # "none"
                THEN /\ pc' = "done"
                     /\ outcome' = res.raised
                     /\ UNCHANGED <<heap, updates_found, pos>>
                ELSE /\ heap' = IF Cardinality(res.values) = 1
                                THEN SetValue(heap, field, cell,
                                              CHOOSE v \in res.values : TRUE)
                                ELSE heap
                     /\ updates_found' = UpdatesFound(updates_found, res.values)
                     /\ pos' = k + 1
                     /\ UNCHANGED <<pc, outcome>>
    /\ UNCHANGED <<counter, bfVars, callVars, printed, done_grid, at_call>>

\* solve: the for loop has no cell left
ScanEnd ==
    /\ pc = "for"
    /\ NextEmpty(heap[field], pos) = 81
    /\ pc' = "while"
    /\ UNCHANGED <<heap, solveVars, bfVars, callVars, outcome, printed, done_grid, at_call>>

\* solve: the while loop ends
LoopExit ==
    /\ pc = "while"
    /\ ~updates_found
    /\ pc' = "check"
    /\ done_grid' = IF run = 1 THEN heap[field] ELSE done_grid
    /\ UNCHANGED <<heap, solveVars, bfVars, callVars, outcome, printed, at_call>>

\* solve: if field.is_valid ... else ... if with_brute_force
CheckValid ==
    /\ pc = "check"
    /\ IF FieldIsValid(heap[field])
       THEN /\ pc' = "done"
            /\ outcome' = "solved"
            /\ printed' = heap[field]
       ELSE IF with_brute_force
            THEN /\ pc' = "bf_call"
                 /\ UNCHANGED <<outcome, printed>>
            ELSE /\ pc' = "done"
                 /\ outcome' = "not_solved"
                 /\ UNCHANGED printed
    /\ UNCHANGED <<heap, solveVars, bfVars, callVars, done_grid, at_call>>

\* brute_force: fields_to_check = [deepcopy(field)]
BruteForceCall ==
    /\ pc = "bf_call"
    /\ at_call' = heap[field]
    /\ fields_to_check' = <<Deepcopy(field, FreshRef(heap))>>
    /\ heap' = Collect(Allocate(heap, field, FreshRef(heap)), fields_to_check',
                       current_field, field_copy)
    /\ pc' = "bf_while"
    /\ UNCHANGED <<solveVars, current_field, bf_cell, possible_values, field_copy,
                   callVars, outcome, printed, done_grid>>

\* brute_force: pop a field, find its first empty cell, ask for its possible values
BfPop ==
    /\ pc = "bf_while"
    /\ fields_to_check # <<>>
    /\ \E cur \in {fields_to_check[Len(fields_to_check)]} :
       \E k \in {NextEmpty(heap[cur], 0)} :
       \E res \in {IF k < 81 THEN GetPossibleValues(heap[cur], CellAt(heap[cur], k))
                            ELSE [raised |-> "no cell", values |-> {}]} :
          /\ current_field' = cur
          /\ fields_to_check' = Pop(fields_to_check)
          /\ heap' = Collect(heap, fields_to_check', cur, field_copy)
          /\ IF res.raised = "none"
             THEN /\ bf_cell' = CellAt(heap[cur], k)
                  /\ possible_values' = res.values
                  /\ pc' = "bf_for"
             ELSE /\ UNCHANGED <<bf_cell, possible_values>>
                  /\ pc' = "bf_while"
    /\ UNCHANGED <<solveVars, field_copy, callVars, outcome, printed, done_grid, at_call>>

\* brute_force: one iteration of "for value in possible_values", in any order
BfTry ==
    /\ pc = "bf_for"
    /\ \E value \in possible_values :
       \E copy \in {Deepcopy(current_field, FreshRef(heap))} :
       \E h \in {SetValue(Allocate(heap, current_field, FreshRef(heap)), copy,
                          bf_cell, value)} :
          /\ field_copy' = copy
          /\ IF HasEmptyCells(h[copy])
             THEN /\ fields_to_check' = Push(fields_to_check, copy)
                  /\ possible_values' = possible_values \ {value}
                  /\ UNCHANGED <<pc, outcome, printed>>
             ELSE IF FieldIsValid(h[copy])
                  THEN /\ pc' = "done"
                       /\ outcome' = "bf_solved"
                       /\ printed' = h[copy]
                       /\ UNCHANGED <<fields_to_check, possible_values>>
                  ELSE /\ possible_values' = possible_values \ {value}
                       /\ UNCHANGED <<fields_to_check, pc, outcome, printed>>
          /\ heap' = Collect(h, fields_to_check', current_field, copy)
    /\ UNCHANGED <<solveVars, current_field, bf_cell, callVars, done_grid, at_call>>

\* brute_force: the for loop over the values is over, break
BfForEnd ==
    /\ pc = "bf_for"
    /\ possible_values = {}
    /\ pc' = "bf_while"
    /\ UNCHANGED <<heap, solveVars, bfVars, callVars, outcome, printed, done_grid, at_call>>

\* brute_force: the stack is empty, the function returns without a solution
BfReturn ==
    /\ pc = "bf_while"
    /\ fields_to_check = <<>>
    /\ pc' = "done"
    /\ outcome' = "bf_exhausted"
    /\ UNCHANGED <<heap, solveVars, bfVars, callVars, printed, done_grid, at_call>>

\* the caller runs solve(field) again on the grid the first call left
Rerun ==
    /\ pc = "done"
    /\ run = 1
    /\ ~with_brute_force
    /\ outcome \in {"solved", "not_solved"}
    /\ run' = 2
    /\ pc' = "while"
    /\ counter' = 0
    /\ updates_found' = TRUE
    /\ outcome' = "running"
    /\ UNCHANGED <<heap, pos, bfVars, with_brute_force, input, solutions, printed,
                   done_grid, at_call>>

Next ==
    \/ CycleStart
    \/ ScanCell
    \/ ScanEnd
    \/ LoopExit
    \/ CheckValid
    \/ BruteForceCall
    \/ BfPop
    \/ BfTry
    \/ BfForEnd
    \/ BfReturn
    \/ Rerun

Spec == Init /\ [][Next]_vars

\* one thread of control that never yields: the next statement always runs
FairSpec == Spec /\ WF_vars(Next)

----------------------------------------------------------------------------
(* The claims *)

\* brute_force has been entered and has not returned
InBruteForce == pc \in {"bf_while", "bf_for"}

\* the value the grid s holds at position k of field.cells
ValueAt(s, k) == s[k \div 9][k % 9]

\* C1: when the input extends to exactly one valid complete grid, solve with
\* with_brute_force ends having printed as solved a grid that keeps the input's
\* clues, has no empty cell and is valid; it ends neither with the stack
\* exhausted nor with an error.
C1_UniquePuzzleIsSolved ==
    (pc = "done" /\ with_brute_force /\ Cardinality(solutions) = 1)
        => /\ outcome \in {"solved", "bf_solved"}
           /\ printed # NoGrid
           /\ Agrees(input, printed)
           /\ NoEmptyCell(printed)
           /\ ValidComplete(printed)

\* a puzzle with one solution that the propagation loop left unfinished was
\* solved by the search
C1_Witness ==
    /\ pc = "done"
    /\ outcome = "bf_solved"
    /\ Cardinality(solutions) = 1
    /\ ~NoEmptyCell(at_call)

\* C2: no step of brute_force, from its call to its return, changes an object
\* that exists before the step (the caller's grid, the popped grid, the grids
\* on the stack, earlier copies): a step writes only into the copy it makes.
\* So the caller's grid stays what it was at the call.
C2_BruteForceWritesOnlyFreshCopies ==
    [][(pc \in {"bf_call", "bf_while", "bf_for"})
          => /\ \A ref \in (DOMAIN heap) \cap (DOMAIN heap') : heap'[ref] = heap[ref]
             /\ heap'[field] = at_call']_vars

\* the search is iterating values with the popped grid, two pending grids on
\* the stack, and a copy that differs from the grid it was copied from
C2_Witness ==
    /\ pc = "bf_for"
    /\ Len(fields_to_check) >= 2
    /\ field_copy \in DOMAIN heap
    /\ heap[field_copy] # heap[current_field]
    /\ heap[field] = at_call

\* C3: is_valid is true exactly of the grids with no empty cell in which every
\* row, column and box holds each of 1..9 once; a grid with a value twice in a
\* row is never valid.
C3_IsValidIffAllUnitsComplete ==
    \A ref \in DOMAIN heap :
        /\ FieldIsValid(heap[ref]) <=> ValidComplete(heap[ref])
        /\ RowDuplicate(heap[ref]) => ~FieldIsValid(heap[ref])

\* a grid without empty cells and with a value twice in a row was judged, and
\* so was a grid with an empty cell
C3_Witness ==
    /\ NoEmptyCell(heap[field])
    /\ RowDuplicate(heap[field])
    /\ ~FieldIsValid(heap[field])
    /\ pc = "done"

\* C4: the zero-candidate signal of the propagation loop does not leave solve
\* as an uncaught AssertionError.
C4_SignalDoesNotEscapeSolve == ~(pc = "done" /\ outcome = "AssertionError")

\* C5 as stated: brute_force is called only on a grid with an empty cell.
C5_SearchOnlyWithEmptyCells == pc = "bf_call" => ~NoEmptyCell(heap[field])

\* C5 amended: brute_force is called only with with_brute_force set and on a
\* grid that is not valid once the propagation loop has ended; if the input
\* had no value twice in a unit, that grid has an empty cell.
C5_SearchOnlyIfNotValid ==
    pc = "bf_call"
        => /\ with_brute_force
           /\ ~updates_found
           /\ ~ValidComplete(heap[field])
           /\ NoDuplicate(input) => ~NoEmptyCell(heap[field])

\* a grid without empty cells is handed to brute_force
C5_Witness == pc = "bf_call" /\ NoEmptyCell(heap[field]) /\ ~ValidComplete(heap[field])

\* C6: a second run of the propagation loop on the grid the first run left
\* assigns nothing and ends after one cycle.
C6_PropagationIdempotent ==
    run = 2
        => /\ heap[field] = done_grid
           /\ outcome # "AssertionError"
           /\ pc \in {"check", "done"} => counter = 1 /\ ~updates_found

\* the second run ended on a grid on which the first run had assigned cells
\* and which still has empty cells
C6_Witness ==
    /\ run = 2
    /\ pc = "done"
    /\ done_grid # input
    /\ ~NoEmptyCell(done_grid)

\* C7: every call of brute_force returns.
C7_BruteForceTerminates == (pc = "bf_call") ~> (pc = "done")

\* brute_force returned with a solution while three grids were still on its stack
C7_Witness ==
    /\ pc = "done"
    /\ outcome = "bf_solved"
    /\ Len(fields_to_check) >= 3

\* C8: on a grid whose filled cells agree with a valid complete grid s,
\* get_possible_values raises nothing for an empty cell and returns a set
\* that holds the value of s there.
C8_Tier2KeepsTheSolution ==
    \A ref \in DOMAIN heap :
        \A agreed \in {{s \in solutions : Agrees(heap[ref], s)}} :
            \A k \in {j \in 0..80 : agreed # {} /\ CellAt(heap[ref], j).value = None} :
                \A res \in {GetPossibleValues(heap[ref], CellAt(heap[ref], k))} :
                    /\ res.raised = "none"
                    /\ \A s \in agreed : ValueAt(s, k) \in res.values

\* the search asked for the possible values of a cell of a grid that agrees
\* with a solution, and Tier 2 had removed a Tier-1 candidate of that cell
C8_Witness ==
    /\ pc = "bf_for"
    /\ \E s \in solutions : Agrees(heap[current_field], s)
    /\ Tier2(heap[current_field], bf_cell) # Tier1(heap[current_field], bf_cell)
    /\ possible_values = Tier2(heap[current_field], bf_cell)

\* C9 as stated: Tier 1 is non-empty for every empty cell of every grid.
C9_Tier1NonEmptyOnEmptyCells ==
    \A ref \in DOMAIN heap : \A k \in 0..80 :
        CellAt(heap[ref], k).value = None => Tier1(heap[ref], CellAt(heap[ref], k)) # {}

\* C9 amended: Tier 1 is empty for a filled cell; for an empty cell it is the
\* set of values that no cell of its row, column or box holds, which holds the
\* solution's value when the grid agrees with a valid complete grid.
C9_Tier1IsTheFreeValues ==
    \A ref \in DOMAIN heap : \A k \in 0..80 :
        LET cell == CellAt(heap[ref], k)
        IN  /\ cell.value # None => Tier1(heap[ref], cell) = {}
            /\ cell.value = None
                  => /\ Tier1(heap[ref], cell) = Free(heap[ref], cell.row, cell.column)
                     /\ \A s \in solutions :
                           Agrees(heap[ref], s) => ValueAt(s, k) \in Tier1(heap[ref], cell)

\* a grid without a value twice in a unit has an empty cell with no Tier-1 candidate
C9_Witness ==
    \E ref \in DOMAIN heap :
        /\ NoDuplicate(heap[ref])
        /\ \E k \in 0..80 :
              /\ CellAt(heap[ref], k).value = None
              /\ Tier1(heap[ref], CellAt(heap[ref], k)) = {}

\* C10: from an input with no value twice in a row, column or box, no grid of
\* the propagation loop, of the stack or among the copies has a value twice in
\* a unit, and a copy without empty cells passes is_valid.
C10_NoDuplicateIsKept ==
    NoDuplicate(input)
        => \A ref \in DOMAIN heap :
              /\ NoDuplicate(heap[ref])
              /\ ~HasEmptyCells(heap[ref]) => FieldIsValid(heap[ref])

\* the search filled a copy completely, from an input without duplicates,
\* while other grids were still on the stack
C10_Witness ==
    /\ NoDuplicate(input)
    /\ field_copy \in DOMAIN heap
    /\ ~HasEmptyCells(heap[field_copy])
    /\ fields_to_check # <<>>

====
